---- MODULE Spec2Model ----
(***************************************************************************)
(* Model of go-postgres-ip-allocation: a buddy allocator of CIDR ranges    *)
(* kept in the table ip_range, driven by allocateIPCIDRRange and           *)
(* deallocateIPCIDRRange (main.go) through storage.Transaction             *)
(* (storage/x.go, storage/sql).  Addresses are Width bits wide instead of  *)
(* 32 or 128; bit index 0 is the most significant bit, as in ipGetBit.     *)
(***************************************************************************)
EXTENDS Integers, FiniteSets, Sequences, TLC

\* ------------------------------------------------------------------ bounds
\* Address width in bits (len(c.IP)*8 in the code).
Width == 2
\* Largest number of Allocate/Deallocate calls made by concurrent callers
\* over one behaviour.
MaxCalls == 3
\* Largest number of calls made by a single sequential caller.
MaxSeqCalls == 5

\* The pool the application works on (app.poolID).
poolID == 1
\* Owner identifiers (allocatedTo) the callers use.
Owners == {"A", "B"}
\* Concurrent callers (the worker goroutines of run).
Procs == {"w1", "w2"}

\* ------------------------------------------------------------ cidr package
RECURSIVE Pow2(_)
Pow2(k) == IF k <= 0 THEN 1 ELSE 2 * Pow2(k - 1)

\* The value of bit bitIndex as a mask on a Width-bit address.
bitMask(bitIndex) == Pow2(Width - 1 - bitIndex)

ipGetBit(ip, bitIndex) == (ip \div bitMask(bitIndex)) % 2 = 1

ipSetBit(ip, bitIndex) ==
    IF ipGetBit(ip, bitIndex) THEN ip ELSE ip + bitMask(bitIndex)

\* Mutant: the bit is set, not flipped.
ipFlipBit_setsBit(ip, bitIndex) == ipSetBit(ip, bitIndex)

ipFlipBit(ip, bitIndex) ==
    IF ipGetBit(ip, bitIndex) THEN ip - bitMask(bitIndex) ELSE ip + bitMask(bitIndex)

CIDR(ip, prefixBits) == [IP |-> ip, PrefixBits |-> prefixBits]

\* The zero value CIDR{} (nil IP).
ZeroCIDR == CIDR(-1, 0)

\* What a panic of Other leaves behind: no CIDR at all.
PanicCIDR == CIDR(-1, -1)

\* Mutant: every block counts as the lower one of its pair.
IsLower_always(c) == TRUE

IsLower(c) ==
    IF c.PrefixBits = 0 THEN FALSE ELSE ~ipGetBit(c.IP, c.PrefixBits - 1)

\* len(ip)*8: a nil IP has no bits.
ipLenBits(ip) == IF ip < 0 THEN 0 ELSE Width

\* Mutant: Other accepts every prefix length up to the address width.
Other_noLowerBound(c) ==
    IF c.PrefixBits > ipLenBits(c.IP)
    THEN PanicCIDR
    ELSE CIDR(ipFlipBit(c.IP, c.PrefixBits - 1), c.PrefixBits)

Other(c) ==
    IF c.PrefixBits <= 0 \/ c.PrefixBits > ipLenBits(c.IP)
    THEN PanicCIDR
    ELSE CIDR(ipFlipBit(c.IP, c.PrefixBits - 1), c.PrefixBits)

\* Mutant: Split returns the lower half.
Split_lowerHalf(c) == CIDR(c.IP, c.PrefixBits + 1)

\* ipSetBit indexes outside the address when bit PrefixBits does not exist.
Split(c) ==
    IF c.PrefixBits < 0 \/ c.PrefixBits >= ipLenBits(c.IP)
    THEN PanicCIDR
    ELSE CIDR(ipSetBit(c.IP, c.PrefixBits), c.PrefixBits + 1)

\* ParseCIDR returns a block only when its prefix length fits the address
\* and its address is the first of its range.
Canonical(c) ==
    /\ c.IP >= 0
    /\ c.PrefixBits >= 0 /\ c.PrefixBits <= Width
    /\ c.IP % Pow2(Width - c.PrefixBits) = 0

\* The addresses of the range a block denotes.
Range(c) ==
    LET size == Pow2(Width - c.PrefixBits)
        base == (c.IP \div size) * size
    IN  base..(base + size - 1)

Overlap(c1, c2) == Range(c1) \cap Range(c2) # {}

\* ------------------------------------------------------- storage.Record
Record(pool, c, owner) == [pool |-> pool, c |-> c, owner |-> owner]

\* A nil *storage.Record.
NilRecord == Record(0, ZeroCIDR, "")

Key(r) == [pool |-> r.pool, c |-> r.c]

\* PRIMARY KEY (pool_id, c) and the unique index ip_range_allocated_to on
\* (pool_id, allocated_to) WHERE allocated_to IS NOT NULL.
PrimaryKeyOK(rows) ==
    \A r1, r2 \in rows : Key(r1) = Key(r2) => r1 = r2

OwnerIndexOK(rows) ==
    \A r1, r2 \in rows :
        (r1.owner # "" /\ r1.pool = r2.pool /\ r1.owner = r2.owner) => r1 = r2

\* ------------------------------------------------ storage/sql txWrapper
\* A transaction's private state: the rows it sees (its snapshot with its
\* own writes applied), the row versions it removed and the ones it wrote.
Tx(view, dels, ins, err) == [view |-> view, dels |-> dels, ins |-> ins, err |-> err]

\* execContext: the statement's error, or the row count check.
execContext(expectedRowsAffected, actualRowsAffected) ==
    IF expectedRowsAffected # actualRowsAffected THEN "ConflictOrMissing" ELSE ""

\* DELETE FROM ip_range WHERE pool_id=$1 AND c=$2
Delete(t, pool, c) ==
    LET rows == { r \in t.view : r.pool = pool /\ r.c = c }
        err  == execContext(1, Cardinality(rows))
    IN  IF err # "" THEN [t EXCEPT !.err = err]
        ELSE Tx(t.view \ rows, t.dels \cup rows, t.ins, "")

\* UPDATE ip_range SET request_id=$1 WHERE pool_id=$2 AND c=$3
Update(t, record) ==
    LET rows == { r \in t.view : r.pool = record.pool /\ r.c = record.c }
        new  == { [r EXCEPT !.owner = record.owner] : r \in rows }
        view == (t.view \ rows) \cup new
        err  == execContext(1, Cardinality(rows))
    IN  IF ~OwnerIndexOK(view) THEN [t EXCEPT !.err = "UniqueViolation"]
        ELSE IF err # "" THEN [t EXCEPT !.err = err]
        ELSE Tx(view, t.dels \cup rows, t.ins \cup new, "")

\* INSERT INTO ip_range(pool_id,c,request_id) VALUES ...
InsertMany(t, records) ==
    LET view == t.view \cup records
    IN  IF records = {} THEN t
        ELSE IF \/ \E r \in records : \E v \in t.view : Key(v) = Key(r)
                \/ ~PrimaryKeyOK(view)
                \/ ~OwnerIndexOK(view)
        THEN [t EXCEPT !.err = "UniqueViolation"]
        ELSE Tx(view, t.dels, t.ins \cup records, "")

\* Mutant: the lookup forgets the request_id condition.
FindAllocated_anyOwner(view, pool, requestID) ==
    LET rows == { r \in view : r.pool = pool }
    IN  IF rows = {} THEN NilRecord
        ELSE LET r == CHOOSE x \in rows : TRUE IN Record(pool, r.c, requestID)

\* SELECT c FROM ip_range WHERE pool_id=$1 AND request_id=$2
FindAllocated(view, pool, requestID) ==
    LET rows == { r \in view : r.pool = pool /\ r.owner = requestID }
    IN  IF rows = {} THEN NilRecord
        ELSE LET r == CHOOSE x \in rows : TRUE IN Record(pool, r.c, requestID)

\* The rows FindSmallestFree's query may return: free rows whose masklen is
\* the largest masklen <= prefixBits among free rows.  The query has no
\* pool_id condition; the pool argument only labels the returned record.
FindSmallestFree(view, pool, prefixBits) ==
    LET free == { r \in view : r.owner = "" /\ r.c.PrefixBits <= prefixBits }
        best == { r \in free : \A x \in free : x.c.PrefixBits <= r.c.PrefixBits }
    IN  { Record(pool, r.c, "") : r \in best }

\* SELECT request_id FROM ip_range WHERE pool_id=$1 AND c=$2
Get(view, pool, c) ==
    LET rows == { r \in view : r.pool = pool /\ r.c = c }
    IN  IF rows = {} THEN NilRecord
        ELSE LET r == CHOOSE x \in rows : TRUE IN Record(pool, c, r.owner)

\* ------------------------------------------------------------------ state
VARIABLES
    db,      \* the committed rows of ip_range
    seeded,  \* the rows ip_range was seeded with
    proc,    \* each caller's position and local variables
    hist,    \* committed serializable transactions still concurrent with a running one
    calls,   \* number of Allocate/Deallocate calls made so far
    runErr,  \* run's result variable err, which every worker goroutine assigns
    cancelled, \* ctx, the context every call is given, is done
    blk,     \* a CIDR value that package cidr's methods are applied to
    applied  \* the method calls made on blk so far, with their results

vars == <<db, seeded, proc, hist, calls, runErr, cancelled, blk, applied>>

\* The variables of the application.
appVars == <<db, seeded, proc, hist, calls, runErr, cancelled>>

NoTx == Tx({}, {}, {}, "")

Idle ==
    [pc |-> "idle", op |-> "none", prefixBits |-> 0, allocatedTo |-> "",
     record |-> NilRecord, tx |-> NoTx, base |-> 0, reads |-> {},
     c |-> ZeroCIDR, err |-> ""]

\* insertTestData seeds the pool with one free block; other seedings hold
\* the two free halves, or the lower half already allocated; pool 2 may
\* hold a free block of its own.
Lower1 == CIDR(0, 1)
Upper1 == CIDR(Pow2(Width - 1), 1)

Seeds ==
    { p1 \cup p2 :
        p1 \in { {Record(poolID, CIDR(0, 0), "")},
                 {Record(poolID, Lower1, ""), Record(poolID, Upper1, "")},
                 {Record(poolID, Lower1, "A"), Record(poolID, Upper1, "")} },
        p2 \in { {}, {Record(2, Lower1, "")} } }

Init ==
    /\ db \in Seeds
    /\ seeded = db
    /\ proc = [p \in Procs |-> Idle]
    /\ hist = <<>>
    /\ calls = 0
    /\ runErr = ""
    /\ cancelled = FALSE
    /\ blk = ZeroCIDR
    /\ applied = <<>>

\* ------------------------------------- serializable isolation (Postgres)
\* What a transaction read: a key probed by Get, or the predicate of
\* FindSmallestFree (free rows with masklen <= n, of any pool).
KeyRead(pool, c) == [t |-> "key", pool |-> pool, c |-> c, n |-> 0]
FreeRead(n) == [t |-> "free", pool |-> 0, c |-> ZeroCIDR, n |-> n]

\* A transaction that read `reads` has an rw-antidependency on a concurrent
\* one that wrote the row versions `images`.
RWConflict(reads, images) ==
    \E r \in reads : \E w \in images :
        \/ r.t = "key" /\ w.pool = r.pool /\ w.c = r.c
        \/ r.t = "free" /\ w.owner = "" /\ w.c.PrefixBits <= r.n

Images(t) == t.dels \cup t.ins

\* The committed transactions p's snapshot does not see.
Concurrent(p) == { i \in 1..Len(hist) : i > proc[p].base }

\* First-committer-wins: a concurrent committed transaction wrote a row p wrote.
WriteConflict(p) ==
    \E i \in Concurrent(p) :
        { Key(w) : w \in hist[i].images } \cap { Key(w) : w \in Images(proc[p].tx) } # {}

OutConflicts(p) == { i \in Concurrent(p) : RWConflict(proc[p].reads, hist[i].images) }
InConflicts(p) == { i \in Concurrent(p) : RWConflict(hist[i].reads, Images(proc[p].tx)) }

\* Committing p would complete a dangerous structure Tin -rw-> Tpivot -rw-> Tout
\* in which Tout committed first.
Dangerous(p) ==
    \/ \E i \in InConflicts(p) : \E j \in OutConflicts(p) : j <= i
    \/ \E i \in OutConflicts(p) : hist[i].outEarlier

\* The rows after p's commit break a unique index.
UniqueConflict(p) ==
    LET rows == (db \ proc[p].tx.dels) \cup proc[p].tx.ins
    IN  ~PrimaryKeyOK(rows) \/ ~OwnerIndexOK(rows)

MustFail(p) == WriteConflict(p) \/ Dangerous(p) \/ UniqueConflict(p)

InTx(q) == q.pc \in {"allocCommit", "deallocCommit"}

\* Forget the committed transactions every running transaction sees.
Forget(pr, h) ==
    LET active == { p \in Procs : InTx(pr[p]) }
        low == IF active = {} THEN Len(h)
               ELSE CHOOSE b \in { pr[p].base : p \in active } :
                        \A p \in active : b <= pr[p].base
    IN  [proc |-> [p \in Procs |->
                      IF p \in active THEN [pr[p] EXCEPT !.base = @ - low] ELSE pr[p]],
         hist |-> SubSeq(h, low + 1, Len(h))]

\* ------------------------------------------------------------ main.go
\* Mutant: the lookup is made in another pool.
findAllocated_otherPool(allocatedTo) == FindAllocated(db, 2, allocatedTo)

\* findAllocated: a read-only transaction of its own on the committed rows.
findAllocated(allocatedTo) == FindAllocated(db, poolID, allocatedTo)

\* Mutant: the split loop stages the first upper half only.
newRecords_firstOnly(c, prefixBits) ==
    IF c.PrefixBits >= prefixBits THEN {}
    ELSE {Record(poolID, Split(c), "")}

\* The split loop of allocateIPCIDRRange: the upper halves staged while the
\* record is narrowed to prefixBits.
RECURSIVE newRecords(_, _)
newRecords(c, prefixBits) ==
    IF c.PrefixBits >= prefixBits THEN {}
    ELSE {Record(poolID, Split(c), "")}
            \cup newRecords(CIDR(c.IP, c.PrefixBits + 1), prefixBits)

\* Mutant: the pre-split record is not deleted.
allocateStatements_keepOriginal(t, record, prefixBits, allocatedTo) ==
    LET final == Record(record.pool, CIDR(record.c.IP, prefixBits), allocatedTo)
    IN  IF record.c.PrefixBits # prefixBits
        THEN InsertMany(t, newRecords(record.c, prefixBits) \cup {final})
        ELSE Update(t, final)

\* Mutant: the owner is not set on the record that is written.
allocateStatements_ownerNotSet(t, record, prefixBits, allocatedTo) ==
    LET final == Record(record.pool, CIDR(record.c.IP, prefixBits), "")
    IN  IF record.c.PrefixBits # prefixBits
        THEN LET t1 == Delete(t, record.pool, record.c)
             IN  IF t1.err # "" THEN t1
                 ELSE InsertMany(t1, newRecords(record.c, prefixBits) \cup {final})
        ELSE Update(t, final)

\* The statements of allocateIPCIDRRange's transaction once FindSmallestFree
\* returned record.
allocateStatements(t, record, prefixBits, allocatedTo) ==
    LET recordOldPrefixBits == record.c.PrefixBits
        final == Record(record.pool, CIDR(record.c.IP, prefixBits), allocatedTo)
    IN  IF record.c.PrefixBits > prefixBits THEN [t EXCEPT !.err = "BugInCode"]
        ELSE IF recordOldPrefixBits # prefixBits
        THEN LET t1 == Delete(t, record.pool, CIDR(record.c.IP, recordOldPrefixBits))
             IN  IF t1.err # "" THEN t1
                 ELSE InsertMany(t1, newRecords(record.c, prefixBits) \cup {final})
        ELSE LET t1 == Update(t, final)
             IN  IF t1.err # "" THEN t1
                 ELSE InsertMany(t1, newRecords(record.c, prefixBits))

\* Mutant: the loop stops at a free buddy instead of merging with it.
mergeLoop_noMerge(t, record, recordOldPrefixBits, reads) ==
    [tx |-> t, record |-> record, recordOldPrefixBits |-> recordOldPrefixBits,
     reads |-> IF record.c.PrefixBits <= 0 THEN reads
               ELSE reads \cup {KeyRead(poolID, Other(record.c))}]

\* Mutant: the loop merges with the buddy once and stops.
mergeLoop_oneLevel(t, record, recordOldPrefixBits, reads) ==
    LET record2 == Get(t.view, poolID, Other(record.c))
        reads2  == reads \cup {KeyRead(poolID, Other(record.c))}
        stop(tt, rec, old, rr) == [tx |-> tt, record |-> rec,
                                   recordOldPrefixBits |-> old, reads |-> rr]
    IN  IF record.c.PrefixBits <= 0 THEN stop(t, record, recordOldPrefixBits, reads)
        ELSE IF record2 = NilRecord \/ record2.owner # ""
        THEN stop(t, record, recordOldPrefixBits, reads2)
        ELSE IF IsLower(record.c)
        THEN stop(Delete(t, record2.pool, record2.c),
                  [record EXCEPT !.c.PrefixBits = @ - 1], recordOldPrefixBits, reads2)
        ELSE stop(Delete(t, record.pool, CIDR(record.c.IP, recordOldPrefixBits)),
                  [record2 EXCEPT !.c.PrefixBits = @ - 1], record2.c.PrefixBits, reads2)

\* The merge loop of deallocateIPCIDRRange.
RECURSIVE mergeLoop(_, _, _, _)
mergeLoop(t, record, recordOldPrefixBits, reads) ==
    LET record2 == Get(t.view, poolID, Other(record.c))
        reads2  == reads \cup {KeyRead(poolID, Other(record.c))}
        stop(tt, rr) == [tx |-> tt, record |-> record,
                         recordOldPrefixBits |-> recordOldPrefixBits, reads |-> rr]
    IN  IF record.c.PrefixBits <= 0 THEN stop(t, reads)
        ELSE IF record2 = NilRecord THEN stop(t, reads2)
        ELSE IF record2.owner # "" THEN stop(t, reads2)
        ELSE IF IsLower(record.c)
        THEN LET t1 == Delete(t, record2.pool, record2.c)
             IN  IF t1.err # "" THEN stop(t1, reads2)
                 ELSE mergeLoop(t1, [record EXCEPT !.c.PrefixBits = @ - 1],
                                recordOldPrefixBits, reads2)
        ELSE LET t1 == Delete(t, record.pool, CIDR(record.c.IP, recordOldPrefixBits))
             IN  IF t1.err # "" THEN stop(t1, reads2)
                 ELSE mergeLoop(t1, [record2 EXCEPT !.c.PrefixBits = @ - 1],
                                record2.c.PrefixBits, reads2)

\* Mutant: the record inserted is the one looked up, not the merged one.
deallocateStatements_insertsOriginal(t, record) ==
    LET m == mergeLoop(t, [record EXCEPT !.owner = ""], record.c.PrefixBits, {})
    IN  IF m.tx.err # "" THEN [tx |-> m.tx, reads |-> m.reads]
        ELSE LET t1 == Delete(m.tx, m.record.pool,
                              CIDR(m.record.c.IP, m.recordOldPrefixBits))
             IN  IF t1.err # "" THEN [tx |-> t1, reads |-> m.reads]
                 ELSE [tx |-> InsertMany(t1, {[record EXCEPT !.owner = ""]}),
                       reads |-> m.reads]

\* The statements of deallocateIPCIDRRange's transaction for the record the
\* fast path found.
deallocateStatements(t, record) ==
    LET m == mergeLoop(t, [record EXCEPT !.owner = ""], record.c.PrefixBits, {})
    IN  IF m.tx.err # "" THEN [tx |-> m.tx, reads |-> m.reads]
        ELSE LET t1 == Delete(m.tx, m.record.pool,
                              CIDR(m.record.c.IP, m.recordOldPrefixBits))
             IN  IF t1.err # "" THEN [tx |-> t1, reads |-> m.reads]
                 ELSE [tx |-> InsertMany(t1, {m.record}), reads |-> m.reads]

\* The worker loop of run retries Allocate on 40001 and 23505.
Retried(err) == err \in {"SerializationFailure", "UniqueViolation"}

\* allocateIPCIDRRange returns err: the deferred function has rolled the
\* transaction back.
allocateFailed(q, err) ==
    [q EXCEPT !.pc = "returned", !.tx = NoTx, !.base = 0, !.reads = {},
              !.record = NilRecord, !.c = ZeroCIDR, !.err = err]

\* Deallocate's errors are returned by run, never retried.
deallocateFailed(q, err) ==
    [q EXCEPT !.pc = "done", !.tx = NoTx, !.base = 0, !.reads = {},
              !.record = NilRecord, !.c = ZeroCIDR, !.err = err]

\* What BeginTransaction, a statement or Commit returns once ctx is done:
\* the transaction, if one was begun, is rolled back.
ctxErr == "Canceled"

\* Mutant: the fast path does not compare the prefix sizes.
allocateFastPath_noSizeCheck(q) ==
    LET record == findAllocated(q.allocatedTo)
    IN  IF record # NilRecord
        THEN [q EXCEPT !.pc = "returned", !.err = "", !.c = record.c]
        ELSE [q EXCEPT !.pc = "allocBegin", !.err = "", !.c = ZeroCIDR]

\* The fast path of allocateIPCIDRRange.
allocateFastPath(q) ==
    LET record == findAllocated(q.allocatedTo)
    IN  IF cancelled
        THEN [q EXCEPT !.pc = "returned", !.err = ctxErr, !.c = ZeroCIDR]
        ELSE IF record # NilRecord
        THEN IF record.c.PrefixBits # q.prefixBits
             THEN [q EXCEPT !.pc = "returned",
                            !.err = "OwnerSizeMismatch", !.c = ZeroCIDR]
             ELSE [q EXCEPT !.pc = "returned", !.err = "", !.c = record.c]
        ELSE [q EXCEPT !.pc = "allocBegin", !.err = "", !.c = ZeroCIDR]

\* cidr, err = a.allocateIPCIDRRange(...): a worker whose call has returned
\* assigns the error to run's err, which all workers share.
assignErr(q) == IF q.pc = "returned" THEN q.err ELSE runErr

\* A worker calls allocateIPCIDRRange(prefixBits, allocatedTo).
AllocateCall(p, prefixBits, allocatedTo) ==
    /\ proc[p].pc \in {"idle", "done"}
    /\ calls' = calls + 1
    /\ proc' = [proc EXCEPT ![p] =
                  allocateFastPath([Idle EXCEPT !.op = "Allocate",
                                                !.prefixBits = prefixBits,
                                                !.allocatedTo = allocatedTo])]
    /\ runErr' = assignErr(proc'[p])
    /\ UNCHANGED <<db, seeded, hist, cancelled, blk, applied>>

\* The worker reads run's err, which another worker may have assigned since,
\* and retries, gives up or goes on.
AllocateDecide(p) ==
    /\ proc[p].pc = "returned"
    /\ proc' = [proc EXCEPT ![p].pc = IF Retried(runErr) THEN "retry" ELSE "done"]
    /\ UNCHANGED <<db, seeded, hist, calls, runErr, cancelled, blk, applied>>

\* The worker loop calls allocateIPCIDRRange again after a retried error.
AllocateRetry(p) ==
    /\ proc[p].pc = "retry"
    /\ proc' = [proc EXCEPT ![p] = allocateFastPath(@)]
    /\ runErr' = assignErr(proc'[p])
    /\ UNCHANGED <<db, seeded, hist, calls, cancelled, blk, applied>>

\* The serializable transaction of allocateIPCIDRRange up to its commit.
AllocateTx(p) ==
    /\ proc[p].pc = "allocBegin"
    /\ LET q == proc[p]
           found == FindSmallestFree(db, poolID, q.prefixBits)
       IN  IF cancelled
           THEN proc' = [proc EXCEPT ![p] = allocateFailed(q, ctxErr)]
           ELSE IF found = {}
           THEN proc' = [proc EXCEPT ![p] = allocateFailed(q, "PoolExhausted")]
           ELSE \E record \in found :
                  LET t == allocateStatements(Tx(db, {}, {}, ""), record,
                                              q.prefixBits, q.allocatedTo)
                  IN  proc' = [proc EXCEPT ![p] =
                         IF t.err # "" THEN allocateFailed(q, t.err)
                         ELSE [q EXCEPT !.pc = "allocCommit", !.record = record,
                                        !.tx = [t EXCEPT !.view = {}],
                                        !.base = Len(hist),
                                        !.reads = {FreeRead(q.prefixBits)},
                                        !.c = CIDR(record.c.IP, q.prefixBits)]]
    /\ runErr' = assignErr(proc'[p])
    /\ UNCHANGED <<db, seeded, hist, calls, cancelled, blk, applied>>

errRecordDoesNotExist == "record does not exist"

\* A worker calls deallocateIPCIDRRange(allocatedTo): the fast path.
DeallocateCall(p, allocatedTo) ==
    /\ proc[p].pc \in {"idle", "done"}
    /\ calls' = calls + 1
    /\ LET record == findAllocated(allocatedTo)
           q == [Idle EXCEPT !.op = "Deallocate", !.allocatedTo = allocatedTo]
       IN  proc' = [proc EXCEPT ![p] =
              IF cancelled
              THEN [q EXCEPT !.pc = "done", !.err = ctxErr]
              ELSE IF record = NilRecord
              THEN [q EXCEPT !.pc = "done", !.err = errRecordDoesNotExist]
              ELSE [q EXCEPT !.pc = "deallocBegin", !.record = record]]
    /\ UNCHANGED <<db, seeded, hist, runErr, cancelled, blk, applied>>

\* The serializable transaction of deallocateIPCIDRRange up to its commit.
DeallocateTx(p) ==
    /\ proc[p].pc = "deallocBegin"
    /\ LET q == proc[p]
           s == deallocateStatements(Tx(db, {}, {}, ""), q.record)
       IN  proc' = [proc EXCEPT ![p] =
              IF cancelled THEN deallocateFailed(q, ctxErr)
              ELSE IF s.tx.err # "" THEN deallocateFailed(q, s.tx.err)
              ELSE [q EXCEPT !.pc = "deallocCommit",
                             !.tx = [s.tx EXCEPT !.view = {}],
                             !.base = Len(hist), !.reads = s.reads,
                             !.c = q.record.c]]
    /\ UNCHANGED <<db, seeded, hist, calls, runErr, cancelled, blk, applied>>

\* Mutant: the commit makes the deletes visible and loses the inserts.
Commit_insertsLost(p) ==
    /\ InTx(proc[p])
    /\ ~cancelled
    /\ ~MustFail(p)
    /\ LET q == proc[p]
           entry == [reads |-> q.reads, images |-> Images(q.tx),
                     outEarlier |-> OutConflicts(p) # {}]
           f == Forget([proc EXCEPT ![p] =
                           [q EXCEPT !.pc = IF q.op = "Allocate" THEN "returned"
                                                  ELSE "done",
                                     !.tx = NoTx, !.base = 0,
                                     !.reads = {}, !.record = NilRecord,
                                     !.err = ""]],
                       Append(hist, entry))
       IN  /\ db' = db \ q.tx.dels
           /\ proc' = f.proc
           /\ hist' = f.hist
    /\ runErr' = assignErr(proc'[p])
    /\ UNCHANGED <<seeded, calls, cancelled, blk, applied>>

\* tx.Commit() succeeds: the writes become visible together.
Commit(p) ==
    /\ InTx(proc[p])
    /\ ~cancelled
    /\ ~MustFail(p)
    /\ LET q == proc[p]
           entry == [reads |-> q.reads, images |-> Images(q.tx),
                     outEarlier |-> OutConflicts(p) # {}]
           f == Forget([proc EXCEPT ![p] =
                           [q EXCEPT !.pc = IF q.op = "Allocate" THEN "returned"
                                                  ELSE "done",
                                     !.tx = NoTx, !.base = 0,
                                     !.reads = {}, !.record = NilRecord,
                                     !.err = ""]],
                       Append(hist, entry))
       IN  /\ db' = (db \ q.tx.dels) \cup q.tx.ins
           /\ proc' = f.proc
           /\ hist' = f.hist
    /\ runErr' = assignErr(proc'[p])
    /\ UNCHANGED <<seeded, calls, cancelled, blk, applied>>

\* The transaction fails with a serialization failure or a unique violation
\* raised by a concurrent commit, or because ctx is done, and is rolled back.
CommitFails(p) ==
    /\ InTx(proc[p])
    /\ Concurrent(p) # {} \/ cancelled
    /\ LET q == proc[p]
           err == IF cancelled THEN ctxErr
                  ELSE IF UniqueConflict(p) /\ ~WriteConflict(p)
                  THEN "UniqueViolation" ELSE "SerializationFailure"
           f == Forget([proc EXCEPT ![p] =
                           IF q.op = "Allocate" THEN allocateFailed(q, err)
                           ELSE deallocateFailed(q, err)],
                       hist)
       IN  /\ proc' = f.proc
           /\ hist' = f.hist
    /\ runErr' = assignErr(proc'[p])
    /\ UNCHANGED <<db, seeded, calls, cancelled, blk, applied>>

\* Concurrent callers.
Next ==
    \/ calls < MaxCalls /\ \E p \in Procs, n \in 0..Width, o \in Owners : AllocateCall(p, n, o)
    \/ \E p \in Procs : AllocateDecide(p)
    \/ \E p \in Procs : AllocateRetry(p)
    \/ \E p \in Procs : AllocateTx(p)
    \/ calls < MaxCalls /\ \E p \in Procs, o \in Owners : DeallocateCall(p, o)
    \/ \E p \in Procs : DeallocateTx(p)
    \/ \E p \in Procs : Commit(p)
    \/ \E p \in Procs : CommitFails(p)

Spec == Init /\ [][Next]_vars

\* signal.NotifyContext: an interrupt cancels ctx.
Cancel ==
    /\ ~cancelled
    /\ cancelled' = TRUE
    /\ UNCHANGED <<db, seeded, proc, hist, calls, runErr, blk, applied>>

\* Concurrent callers whose context can be cancelled at any moment.
NextCancel ==
    \/ Cancel
    \/ Next

SpecCancel == Init /\ [][NextCancel]_vars

\* One caller making its calls one after the other, as the deallocation
\* loop of run does.
NextSeq ==
    \/ calls < MaxSeqCalls /\ \E n \in 0..Width, o \in Owners : AllocateCall("w1", n, o)
    \/ AllocateDecide("w1")
    \/ AllocateTx("w1")
    \/ calls < MaxSeqCalls /\ \E o \in Owners : DeallocateCall("w1", o)
    \/ DeallocateTx("w1")
    \/ Commit("w1")

SpecSeq == Init /\ [][NextSeq]_vars

\* ------------------------------------------------- package cidr on its own
\* Largest number of method calls made on one CIDR value.
MaxApplied == 2

\* Every address with every prefix length, canonical or not, valid or not,
\* and CIDR values with a nil IP.
AllCIDRs ==
    { CIDR(ip, n) : ip \in 0..(Pow2(Width) - 1), n \in (-1)..(Width + 1) }
        \cup {ZeroCIDR, CIDR(-1, 1)}

InitCidr ==
    /\ db = {}
    /\ seeded = {}
    /\ proc = [p \in Procs |-> Idle]
    /\ hist = <<>>
    /\ calls = 0
    /\ runErr = ""
    /\ cancelled = FALSE
    /\ blk \in AllCIDRs
    /\ applied = <<>>

\* A call: the method, its receiver, its result, and the blocks it looked
\* up with Get.
Applied(fn, c, out, gets) == [fn |-> fn, c |-> c, out |-> out, gets |-> gets]

\* c.Other(); the caller goes on with the buddy unless the call panicked.
ApplyOther ==
    /\ Len(applied) < MaxApplied
    /\ applied' = Append(applied, Applied("Other", blk, Other(blk), {}))
    /\ blk' = IF Other(blk) = PanicCIDR THEN blk ELSE Other(blk)
    /\ UNCHANGED appVars

\* The split step of allocateIPCIDRRange: c.Split() is the upper half and
\* c with PrefixBits incremented is the lower half the caller goes on with.
ApplySplit ==
    /\ Len(applied) < MaxApplied
    /\ applied' = Append(applied, Applied("Split", blk, Split(blk), {}))
    /\ blk' = IF Split(blk) = PanicCIDR THEN blk
              ELSE CIDR(blk.IP, blk.PrefixBits + 1)
    /\ UNCHANGED appVars

\* The merge step of deallocateIPCIDRRange: the lower one of c and c.Other()
\* with PrefixBits decremented; c.Other() is called first and may panic.
ApplyMerge ==
    /\ Len(applied) < MaxApplied
    /\ blk.PrefixBits > 0
    /\ LET lower  == IF IsLower(blk) THEN blk ELSE Other(blk)
           merged == IF Other(blk) = PanicCIDR THEN PanicCIDR
                     ELSE CIDR(lower.IP, lower.PrefixBits - 1)
       IN  /\ applied' = Append(applied, Applied("Merge", blk, merged, {Other(blk)}))
           /\ blk' = IF merged = PanicCIDR THEN blk ELSE merged
    /\ UNCHANGED appVars

\* The block of prefixBits n that holds c.
Ancestor(c, n) == CIDR((c.IP \div Pow2(Width - n)) * Pow2(Width - n), n)

\* The whole merge loop of deallocateIPCIDRRange on a record read from
\* ip_range, the buddy being a free record at the levels in free.
ApplyMergeLoop ==
    /\ Len(applied) < MaxApplied
    /\ Canonical(blk)
    /\ \E free \in SUBSET (1..blk.PrefixBits) :
          LET view == {Record(poolID, blk, "A")} \cup
                      { Record(poolID, Other(Ancestor(blk, n)), "") : n \in free }
              m == mergeLoop(Tx(view, {}, {}, ""), Record(poolID, blk, ""),
                             blk.PrefixBits, {})
          IN  /\ applied' = Append(applied,
                     Applied("mergeLoop", blk, m.record.c, { r.c : r \in m.reads }))
              /\ blk' = m.record.c
    /\ UNCHANGED appVars

NextCidr ==
    \/ ApplyOther
    \/ ApplySplit
    \/ ApplyMerge
    \/ ApplyMergeLoop

SpecCidr == InitCidr /\ [][NextCidr]_vars

\* ------------------------------------------------------------- type check
TypeOK ==
    /\ PrimaryKeyOK(db)
    /\ \A p \in Procs : proc[p].pc \in
          {"idle", "allocBegin", "allocCommit", "deallocBegin", "deallocCommit",
           "returned", "retry", "done"}

\* ------------------------------------------------------------ properties
PoolRows(rows, pool) == { r \in rows : r.pool = pool }

\* No transaction is in flight.
Quiescent == \A p \in Procs : ~InTx(proc[p])

NoOverlap(rows) ==
    \A r1, r2 \in rows : (r1.pool = r2.pool /\ r1 # r2) => ~Overlap(r1.c, r2.c)

\* C1: in every committed state with no transaction in flight the records
\* of each pool are pairwise non-overlapping.
C1_NoOverlap == Quiescent => NoOverlap(db)

\* C1 witness: both an Allocate and a Deallocate have committed and the pool
\* holds an allocated record next to free ones.
C1_Witness ==
    /\ Quiescent
    /\ \E p, q \in Procs :
          /\ proc[p].pc = "done" /\ proc[p].op = "Allocate" /\ proc[p].err = ""
          /\ proc[q].pc = "done" /\ proc[q].op = "Deallocate" /\ proc[q].err = ""
    /\ \E r1, r2 \in PoolRows(db, poolID) :
          r1.owner # "" /\ r1 \notin seeded /\ r2.owner = "" /\ r2 \notin seeded

\* The record owner holds in the application's pool, if any.
Held(rows, owner) == { r \in PoolRows(rows, poolID) : r.owner = owner }

\* A step in which p's Allocate call returns: from the fast path of a call
\* or a retry, or from the commit of its transaction.
AllocateReturns(p) ==
    /\ \/ \E n \in 0..Width, o \in Owners : AllocateCall(p, n, o)
       \/ AllocateRetry(p)
       \/ Commit(p) /\ proc[p].op = "Allocate"
    /\ proc'[p].pc = "returned"

\* An Allocate transaction of p commits.
AllocateCommits(p) == Commit(p) /\ proc[p].op = "Allocate"

\* C2: in every committed state there is at most one allocated record per
\* (pool, non-empty owner); an Allocate transaction for an owner commits only
\* when no record of that owner is committed, and an Allocate that returns
\* a block returns the one block the owner then holds.
C2_OwnerUnique ==
    [][ /\ \A r1, r2 \in db' :
             (r1.owner # "" /\ r1.pool = r2.pool /\ r1.owner = r2.owner) => r1 = r2
        /\ \A p \in Procs :
             /\ AllocateCommits(p) => Held(db, proc[p].allocatedTo) = {}
             /\ (AllocateReturns(p) /\ proc'[p].err = "") =>
                   Held(db', proc'[p].allocatedTo)
                       = {Record(poolID, proc'[p].c, proc'[p].allocatedTo)}
      ]_vars

\* C3: two concurrent Allocate calls with distinct owners and prefix size 1
\* against a pool holding exactly two free blocks of that size: the blocks
\* returned by the calls that succeed are distinct and each is recorded as
\* owned by the owner it was returned to.
C3_DistinctBlocks ==
    ( /\ PoolRows(seeded, poolID) = {Record(poolID, Lower1, ""), Record(poolID, Upper1, "")}
      /\ \A p \in Procs : proc[p].op = "Allocate" /\ proc[p].prefixBits = 1
      /\ \A p, q \in Procs : p # q => proc[p].allocatedTo # proc[q].allocatedTo
      /\ calls = Cardinality(Procs) )
    => \A p, q \in Procs :
          (proc[p].pc = "done" /\ proc[p].err = "") =>
             /\ Record(poolID, proc[p].c, proc[p].allocatedTo) \in db
             /\ (p # q /\ proc[q].pc = "done" /\ proc[q].err = "") => proc[p].c # proc[q].c

\* C4: the block an Allocate transaction assigns was a free record of the
\* application's pool before the transaction: its commit rewrites or deletes
\* only free records, and every allocated record is still there afterwards.
C4_AllocateTakesFreeOfPool ==
    [][ \A p \in Procs :
          AllocateCommits(p) =>
             /\ \A r \in proc[p].tx.dels : r.owner = "" /\ r.pool = poolID
             /\ \A r \in db : r.owner # "" => r \in db'
      ]_vars

\* C5: every Allocate that returns success returns a block whose prefixBits
\* is the requested one, and the committed rows then hold that block for
\* the owner.
C5_SizeExact ==
    [][ \A p \in Procs :
          (AllocateReturns(p) /\ proc'[p].err = "") =>
             /\ proc'[p].c.PrefixBits = proc'[p].prefixBits
             /\ Record(poolID, proc'[p].c, proc'[p].allocatedTo) \in db'
      ]_vars

\* C5 witness: an Allocate that had to split the whole pool has returned.
C5_Witness ==
    \E p \in Procs :
        /\ proc[p].pc = "done" /\ proc[p].op = "Allocate" /\ proc[p].err = ""
        /\ proc[p].prefixBits = Width
        /\ Record(poolID, proc[p].c, proc[p].allocatedTo) \in db
        /\ PoolRows(seeded, poolID) = {Record(poolID, CIDR(0, 0), "")}

\* A fast path step of p's Allocate for (n, o): a call or a retry.
AllocateFast(p, n, o) ==
    \/ AllocateCall(p, n, o)
    \/ AllocateRetry(p) /\ proc[p].prefixBits = n /\ proc[p].allocatedTo = o

\* C6: if the owner already holds a block of prefixBits n, Allocate(n, owner)
\* returns that block and leaves the rows unchanged.
C6_Idempotent ==
    [][ \A p \in Procs, n \in 0..Width, o \in Owners :
          \A r \in Held(db, o) :
             (AllocateFast(p, n, o) /\ r.c.PrefixBits = n) =>
                /\ proc'[p].pc = "returned" /\ proc'[p].err = ""
                /\ proc'[p].c = r.c
                /\ db' = db
      ]_vars

\* C6 witness: an Allocate for the seeded owner has returned its block and
\* the rows are the seeded ones.
C6_Witness ==
    \E p \in Procs :
        /\ proc[p].pc = "done" /\ proc[p].op = "Allocate" /\ proc[p].err = ""
        /\ proc[p].allocatedTo = "A" /\ proc[p].c = Lower1
        /\ Record(poolID, Lower1, "A") \in seeded
        /\ db = seeded /\ calls = 1

\* C7: if the owner already holds a block of prefixBits n, Allocate(m, owner)
\* with m # n fails with OwnerSizeMismatch, the rows are unchanged and the
\* owner still holds its block.
C7_SizeMismatch ==
    [][ \A p \in Procs, m \in 0..Width, o \in Owners :
          \A r \in Held(db, o) :
             (AllocateFast(p, m, o) /\ r.c.PrefixBits # m) =>
                /\ proc'[p].pc = "returned" /\ proc'[p].err = "OwnerSizeMismatch"
                /\ db' = db
                /\ r \in db'
      ]_vars

\* C7 witness: an Allocate of another size for the seeded owner has failed
\* with OwnerSizeMismatch.
C7_Witness ==
    \E p \in Procs :
        /\ proc[p].pc = "done" /\ proc[p].op = "Allocate"
        /\ proc[p].err = "OwnerSizeMismatch"
        /\ proc[p].allocatedTo = "A" /\ proc[p].prefixBits # 1
        /\ Record(poolID, Lower1, "A") \in db

\* C8: if the pool has no free record with prefixBits <= n, the transaction
\* of Allocate(n, owner) for an owner holding no block fails with
\* PoolExhausted and the rows are unchanged.
C8_PoolExhausted ==
    [][ \A p \in Procs :
          ( /\ AllocateTx(p)
            /\ Held(db, proc[p].allocatedTo) = {}
            /\ ~\E r \in PoolRows(db, poolID) :
                   r.owner = "" /\ r.c.PrefixBits <= proc[p].prefixBits )
          => /\ proc'[p].pc = "returned" /\ proc'[p].err = "PoolExhausted"
             /\ db' = db
      ]_vars

\* C9: Deallocate for an owner that holds no record in the pool fails with
\* NotAllocated (errRecordDoesNotExist) and leaves the rows unchanged.
C9_NotAllocated ==
    [][ \A p \in Procs, o \in Owners :
          (DeallocateCall(p, o) /\ Held(db, o) = {}) =>
             /\ proc'[p].pc = "done" /\ proc'[p].err = errRecordDoesNotExist
             /\ db' = db
      ]_vars

\* C9 witness: a Deallocate for an owner without a record has failed.
C9_Witness ==
    \E p \in Procs :
        /\ proc[p].pc = "done" /\ proc[p].op = "Deallocate"
        /\ proc[p].err = errRecordDoesNotExist
        /\ Held(db, proc[p].allocatedTo) = {}

\* C10: from a pool seeded with a single free block, once no owner holds a
\* block any more and no transaction is in flight, the pool contains exactly
\* one record, the original block, free.
C10_FullRemerge ==
    ( /\ PoolRows(seeded, poolID) = {Record(poolID, CIDR(0, 0), "")}
      /\ Quiescent
      /\ \A r \in PoolRows(db, poolID) : r.owner = "" )
    => PoolRows(db, poolID) = {Record(poolID, CIDR(0, 0), "")}

\* C10 witness: two owners were given the two lowest smallest blocks and
\* both were deallocated, the second block last: the single free block is back.
C10_Witness ==
    /\ PoolRows(seeded, poolID) = {Record(poolID, CIDR(0, 0), "")}
    /\ PoolRows(db, poolID) = {Record(poolID, CIDR(0, 0), "")}
    /\ calls = 4
    /\ \E p \in Procs :
          /\ proc[p].pc = "done" /\ proc[p].op = "Deallocate" /\ proc[p].err = ""
          /\ proc[p].c = CIDR(1, Width)

\* The free records of the application's pool with prefixBits <= n.
FreeFit(rows, n) ==
    { r \in PoolRows(rows, poolID) : r.owner = "" /\ r.c.PrefixBits <= n }

\* p's Allocate transaction runs its statements without an error.
AllocatePlans(p) == AllocateTx(p) /\ proc'[p].pc = "allocCommit"

\* C11: when the transaction of Allocate(n, owner) runs its statements
\* without an error, the record it consumes is a free record of the pool
\* whose prefixBits is the largest among the pool's free records with
\* prefixBits <= n; when that is n itself nothing is split and the only
\* write is that record's owner.
C11_BestFit ==
    [][ \A p \in Procs :
          AllocatePlans(p) =>
             LET r == proc'[p].record
                 n == proc[p].prefixBits
             IN  /\ r \in FreeFit(db, n)
                 /\ \A x \in FreeFit(db, n) : x.c.PrefixBits <= r.c.PrefixBits
                 /\ proc'[p].tx.dels = {r}
                 /\ r.c.PrefixBits = n =>
                       proc'[p].tx.ins = {[r EXCEPT !.owner = proc[p].allocatedTo]}
      ]_vars

\* p and q both have an Allocate transaction in flight that selected the
\* same free record for the same prefix size.
SameSelection(p, q) ==
    /\ p # q
    /\ proc[p].pc = "allocCommit" /\ proc[q].pc = "allocCommit"
    /\ proc[p].record = proc[q].record
    /\ proc[p].prefixBits = proc[q].prefixBits

\* C12: of the Allocate transactions that select the same free record for
\* the same prefix size exactly one commits: while two are in flight one of
\* them can commit, once one has committed the other cannot, and the record
\* is then no longer there for a later transaction to select; the loser's
\* failure changes no row and it returns with no transaction and no block of
\* its own.
C12_OneCommits ==
    [][ \A p, q \in Procs :
          /\ SameSelection(p, q) => (~MustFail(p) \/ ~MustFail(q))
          /\ (AllocateCommits(p) /\ SameSelection(p, q)) => MustFail(q)'
          /\ AllocateCommits(p) =>
                proc[p].record \notin FindSmallestFree(db', poolID, proc[p].prefixBits)
          /\ (CommitFails(q) /\ proc[q].op = "Allocate") =>
                /\ db' = db
                /\ proc'[q].pc = "returned" /\ proc'[q].tx = NoTx
                /\ proc'[q].c = ZeroCIDR
      ]_vars

\* A step in which an attempt of p's Allocate ends with an error raised in
\* its transaction.
AllocateAttemptFails(p) ==
    /\ proc[p].op = "Allocate"
    /\ proc[p].pc \in {"allocBegin", "allocCommit"}
    /\ proc'[p].pc = "returned"
    /\ proc'[p].err # ""

\* C13: an Allocate attempt that fails in its transaction is rolled back (no
\* row changes, no transaction left); the worker starts the operation again
\* from the fast path exactly when the attempt it made ended with a
\* serialization failure or a unique violation, and after every other error,
\* ConflictOrMissing included, or a success it makes no further attempt for
\* that call.
C13_RetryPolicy ==
    [][ \A p \in Procs :
          /\ AllocateAttemptFails(p) => (db' = db /\ proc'[p].tx = NoTx)
          /\ AllocateDecide(p) =>
                (proc'[p].pc = "retry"
                    <=> proc[p].err \in {"SerializationFailure", "UniqueViolation"})
          /\ proc[p].pc = "retry" =>
                \/ proc'[p] = proc[p]
                \/ AllocateRetry(p) /\ proc'[p].pc \in {"returned", "allocBegin"}
          /\ (proc[p].pc = "done" /\ calls' = calls) => proc'[p] = proc[p]
      ]_vars

\* C14: a Deallocate whose transaction fails with a serialization failure is
\* retried as a whole: the failure is never what the call returns to its
\* caller.
C14_DeallocateRetried ==
    \A p \in Procs :
        (proc[p].op = "Deallocate" /\ proc[p].pc = "done")
            => proc[p].err # "SerializationFailure"

\* A step in which an attempt of p's Allocate or Deallocate ends with an
\* error raised in its transaction.
AttemptFails(p) ==
    /\ proc[p].pc \in {"allocBegin", "allocCommit", "deallocBegin", "deallocCommit"}
    /\ proc'[p].pc \in {"returned", "done"}
    /\ proc'[p].err # ""

\* C15: a step in which an Allocate or Deallocate attempt ends with an error
\* changes no row, whatever the transaction had staged; the rows change only
\* in the step in which one transaction commits, and then by all of its
\* deletes and all of its inserts together.
C15_Atomic ==
    [][ /\ \A p \in Procs : AttemptFails(p) => db' = db
        /\ db' # db =>
              \E p \in Procs :
                  /\ InTx(proc[p])
                  /\ proc'[p].pc \in {"returned", "done"} /\ proc'[p].err = ""
                  /\ db' = (db \ proc[p].tx.dels) \cup proc[p].tx.ins
      ]_vars

\* C15 witness: a Deallocate that had staged its deletes and its insert has
\* failed at commit, and the owner's record is still there.
C15_Witness ==
    \E p \in Procs :
        /\ proc[p].pc = "done" /\ proc[p].op = "Deallocate"
        /\ proc[p].err = "SerializationFailure"
        /\ Held(db, proc[p].allocatedTo) # {}
        /\ \E q \in Procs :
              proc[q].pc = "done" /\ proc[q].op = "Allocate" /\ proc[q].err = ""

\* C16: once ctx is cancelled no row changes any more, a transaction in
\* flight ends rolled back with the context's error, and no worker starts
\* another attempt of its Allocate.
C16_Cancellation ==
    [][ cancelled =>
          /\ db' = db
          /\ \A p \in Procs :
                /\ (InTx(proc[p]) /\ ~InTx(proc'[p])) =>
                      (proc'[p].tx = NoTx /\ proc'[p].err = ctxErr)
                /\ ~AllocateRetry(p)
      ]_vars

\* Every worker has made one Allocate call, for an owner of its own and a
\* block no larger than half the pool, on a pool seeded with one free block
\* and no other pool's rows: there is room for all of them.
RoomForAll ==
    /\ seeded = {Record(poolID, CIDR(0, 0), "")}
    /\ calls = Cardinality(Procs)
    /\ \A p \in Procs : proc[p].op = "Allocate" /\ proc[p].prefixBits >= 1
    /\ \A p, q \in Procs : p # q => proc[p].allocatedTo # proc[q].allocatedTo

\* C17: with room for all, a worker is through with its Allocate call only
\* when the call has returned success and its owner holds the block: no
\* caller is left without a block.
C17_AllSucceed ==
    RoomForAll =>
        \A p \in Procs :
            proc[p].pc = "done" =>
                /\ proc[p].err = ""
                /\ Held(db, proc[p].allocatedTo)
                      = {Record(poolID, proc[p].c, proc[p].allocatedTo)}

\* c1's addresses all lie in c2.
Within(c1, c2) == Range(c1) \subseteq Range(c2)

\* C18: the record a Deallocate works on is the one its owner held when the
\* call was made; when its transaction commits, the call returns that
\* record's block, address and prefixBits unchanged by the merging, the
\* owner holds no record and a free record of the pool covers the block.
C18_ReturnsFreedBlock ==
    [][ \A p \in Procs :
          /\ \A o \in Owners :
                (DeallocateCall(p, o) /\ proc'[p].pc = "deallocBegin") =>
                    Held(db, o) = {proc'[p].record}
          /\ (Commit(p) /\ proc[p].op = "Deallocate") =>
                /\ proc'[p].pc = "done" /\ proc'[p].err = ""
                /\ proc'[p].c = proc[p].record.c
                /\ Held(db', proc[p].allocatedTo) = {}
                /\ \E r \in PoolRows(db', poolID) :
                      r.owner = "" /\ Within(proc'[p].c, r.c)
      ]_vars

\* The bits in which two addresses differ.
DiffBits(ip1, ip2) ==
    { k \in 0..(Width - 1) : ipGetBit(ip1, k) # ipGetBit(ip2, k) }

\* C19: for every block b with 0 < prefixBits <= width that Other was called
\* on, Other of the result is b again, the result has b's prefixBits, its
\* address differs from b's in bit prefixBits-1 and in no other bit, and
\* exactly one of b and the result is the lower one.
C19_OtherInvolution ==
    \A i \in DOMAIN applied :
        LET b == applied[i].c
            o == applied[i].out
        IN  (applied[i].fn = "Other" /\ 0 < b.PrefixBits /\ b.PrefixBits <= ipLenBits(b.IP)) =>
               /\ o # PanicCIDR
               /\ Other(o) = b
               /\ o.PrefixBits = b.PrefixBits
               /\ DiffBits(b.IP, o.IP) = {b.PrefixBits - 1}
               /\ IsLower(o) = ~IsLower(b)

\* C19 witness: Other was called on a lower block that is not canonical and
\* returned an upper block.
C19_Witness ==
    \E i \in DOMAIN applied :
        /\ applied[i].fn = "Other"
        /\ applied[i].c.PrefixBits = 1
        /\ ~Canonical(applied[i].c)
        /\ IsLower(applied[i].c)
        /\ applied[i].out # PanicCIDR
        /\ ~IsLower(applied[i].out)

\* C20: for every canonical block b with prefixBits < width that was split,
\* with u the result of Split and l the block b with prefixBits incremented,
\* u and l are each other's buddy, l is the lower and u the upper one, they
\* share no address and together hold exactly the addresses of b, and l
\* with prefixBits decremented is b; the merge step applied to either half
\* of a split gives b.
C20_SplitMergeInverse ==
    \A i \in DOMAIN applied :
        LET b == applied[i].c
            u == applied[i].out
            l == CIDR(b.IP, b.PrefixBits + 1)
        IN  (applied[i].fn = "Split" /\ Canonical(b) /\ b.PrefixBits < Width) =>
               /\ u # PanicCIDR
               /\ Other(u) = l /\ Other(l) = u
               /\ IsLower(l) /\ ~IsLower(u)
               /\ Range(u) \cap Range(l) = {}
               /\ Range(u) \cup Range(l) = Range(b)
               /\ CIDR(l.IP, l.PrefixBits - 1) = b
               /\ (i < Len(applied) /\ applied[i + 1].fn = "Merge") =>
                     /\ applied[i + 1].c = l
                     /\ applied[i + 1].out = b

\* C20 witness: a canonical block has been split and its halves merged.
C20_Witness ==
    \E i \in DOMAIN applied :
        /\ applied[i].fn = "Split"
        /\ Canonical(applied[i].c)
        /\ applied[i].c.PrefixBits = Width - 1
        /\ applied[i].out # PanicCIDR
        /\ i < Len(applied)
        /\ applied[i + 1].fn = "Merge"
        /\ applied[i + 1].out = applied[i].c

\* C21: Other panics on every CIDR whose prefixBits is <= 0 or greater than
\* the number of bits of its address, and on no CIDR with
\* 0 < prefixBits <= width; the merge loop of deallocateIPCIDRRange never
\* calls Other on a block with prefixBits 0 (no Get of it is for the CIDR a
\* panic stands for).
C21_OtherFails ==
    \A i \in DOMAIN applied :
        LET b == applied[i].c
        IN  /\ applied[i].fn = "Other" =>
                  (applied[i].out = PanicCIDR
                      <=> (b.PrefixBits <= 0 \/ b.PrefixBits > ipLenBits(b.IP)))
            /\ applied[i].fn = "mergeLoop" =>
                  /\ PanicCIDR \notin applied[i].gets
                  /\ \A g \in applied[i].gets : g.PrefixBits > 0

\* C21 witness: the merge loop has merged a /Width block all the way to the
\* /0 block, calling Other at every level, and Other called on that /0 block
\* has panicked.
C21_Witness ==
    /\ Len(applied) = 2
    /\ applied[1].fn = "mergeLoop"
    /\ applied[1].c.PrefixBits = Width
    /\ applied[1].out = CIDR(0, 0)
    /\ Cardinality(applied[1].gets) = Width
    /\ applied[2].fn = "Other"
    /\ applied[2].c = CIDR(0, 0)
    /\ applied[2].out = PanicCIDR

\* The allocated records of the pool.
Allocated(rows) == { r \in PoolRows(rows, poolID) : r.owner # "" }

\* C22: an allocated record (pool, B, X) leaves the committed rows only in
\* the commit of a Deallocate(pool, X) whose lookup found that record; no
\* other step, and no Deallocate for another owner or another block, deletes
\* it or gives it another owner.
C22_RemovedByOwnerOnly ==
    [][ \A r \in Allocated(db) :
            r \notin db' =>
                \E p \in Procs :
                    /\ Commit(p)
                    /\ proc[p].op = "Deallocate"
                    /\ proc[p].allocatedTo = r.owner
                    /\ proc[p].record = r
      ]_vars

\* C23: when the transaction of Allocate(n, owner) that commits selected a
\* free record of the pool with prefixBits k and address a: if k < n the
\* commit removes that record and nothing else, and adds n-k+1 records of
\* the pool: for each prefixBits j in k+1..n the free upper half at that
\* level, and the block a/n owned by owner; the added records are pairwise
\* disjoint and hold exactly the addresses of the removed one.  If k = n the
\* commit only puts owner on that record: the keys of ip_range are unchanged.
C23_SplitChain ==
    [][ \A p \in Procs :
          LET r == proc[p].record
              n == proc[p].prefixBits
              k == r.c.PrefixBits
              a == r.c.IP
              o == proc[p].allocatedTo
              del == db \ db'
              ins == db' \ db
          IN  (Commit(p) /\ proc[p].op = "Allocate" /\ r \in db /\ r.owner = "") =>
                 /\ k <= n
                 /\ del = {r}
                 /\ k < n =>
                       /\ Cardinality(ins) = n - k + 1
                       /\ \A j \in (k + 1)..n :
                             /\ Record(poolID, Other(CIDR(a, j)), "") \in ins
                             /\ ~IsLower(Other(CIDR(a, j)))
                             /\ Within(Other(CIDR(a, j)), r.c)
                       /\ Record(poolID, CIDR(a, n), o) \in ins
                       /\ \A x, y \in ins : x # y => ~Overlap(x.c, y.c)
                       /\ UNION { Range(x.c) : x \in ins } = Range(r.c)
                 /\ k = n =>
                       /\ ins = {[r EXCEPT !.owner = o]}
                       /\ { Key(x) : x \in db' } = { Key(x) : x \in db }
      ]_vars

\* C23 witness: one Allocate of a /Width block has split the seeded /0 block
\* of the pool into the whole chain.
C23_Witness ==
    /\ PoolRows(seeded, poolID) = {Record(poolID, CIDR(0, 0), "")}
    /\ calls = 1
    /\ \E p \in Procs :
          /\ proc[p].op = "Allocate" /\ proc[p].pc = "returned" /\ proc[p].err = ""
          /\ proc[p].prefixBits = Width
          /\ Record(poolID, CIDR(0, Width), proc[p].allocatedTo) \in db
    /\ Cardinality(PoolRows(db, poolID)) = Width + 1

\* Two free records of the pool are buddies of each other.
FreeBuddies(rows) ==
    \E r1, r2 \in PoolRows(rows, poolID) :
        /\ r1.owner = "" /\ r2.owner = ""
        /\ r1.c.PrefixBits > 0
        /\ r2.c = Other(r1.c)

\* p's Deallocate transaction runs its statements without an error.
DeallocatePlans(p) == DeallocateTx(p) /\ proc'[p].pc = "deallocCommit"

\* C24: the transaction of Deallocate merges its block with the buddy at
\* every level where the buddy is a free record and stops at the first level
\* where the buddy is absent or allocated, or at prefixBits 0; and when the
\* pool is seeded without two free buddy records, no committed state has two
\* free records of the pool that are buddies.
C24_MaximalCoalescing ==
    [][ /\ \A p \in Procs :
            DeallocatePlans(p) =>
               LET orig == proc[p].record.c
                   m    == CHOOSE x \in proc'[p].tx.ins : TRUE
               IN  /\ proc'[p].tx.ins = {m}
                   /\ m.owner = "" /\ Within(orig, m.c)
                   /\ \A j \in (m.c.PrefixBits + 1)..orig.PrefixBits :
                         Record(poolID, Other(Ancestor(orig, j)), "") \in db
                   /\ \/ m.c.PrefixBits = 0
                      \/ Record(poolID, Other(m.c), "") \notin db
        /\ ~FreeBuddies(seeded) => ~FreeBuddies(db')
      ]_vars

\* C24 witness: a Deallocate has merged its block with a free buddy and
\* stopped one level up, where the buddy is allocated.
C24_Witness ==
    \E p \in Procs :
        /\ proc[p].op = "Deallocate" /\ proc[p].pc = "done" /\ proc[p].err = ""
        /\ \E m, b \in PoolRows(db, poolID) :
              /\ m.owner = "" /\ m.c.PrefixBits > 0
              /\ m.c # proc[p].c /\ Within(proc[p].c, m.c)
              /\ b.c = Other(m.c) /\ b.owner # ""

\* The addresses held by the records of a pool.
Covered(rows, pool) == UNION { Range(r.c) : r \in PoolRows(rows, pool) }

\* C25: in every committed state the records of each pool hold together the
\* addresses the seeded records of that pool held; the commit of a
\* Deallocate inserts one free record and deletes exactly the records of the
\* pool that lie inside it.
C25_Conservation ==
    [][ /\ \A pool \in { r.pool : r \in seeded \cup db' } :
              Covered(db', pool) = Covered(seeded, pool)
        /\ \A p \in Procs :
              (Commit(p) /\ proc[p].op = "Deallocate") =>
                 LET m == CHOOSE x \in proc[p].tx.ins : TRUE
                 IN  /\ proc[p].tx.ins = {m}
                     /\ m.pool = poolID /\ m.owner = ""
                     /\ proc[p].tx.dels =
                           { x \in PoolRows(db, poolID) : Within(x.c, m.c) }
                     /\ db' = (db \ proc[p].tx.dels) \cup {m}
      ]_vars

\* C25 witness: the seeded /0 block has been split by two Allocates and a
\* Deallocate has merged one allocation with its free buddy.
C25_Witness ==
    /\ PoolRows(seeded, poolID) = {Record(poolID, CIDR(0, 0), "")}
    /\ Cardinality(PoolRows(db, poolID)) > 1
    /\ \E r \in PoolRows(db, poolID) : r.owner # ""
    /\ \E p \in Procs :
          /\ proc[p].op = "Deallocate" /\ proc[p].pc = "done" /\ proc[p].err = ""
          /\ Record(poolID, proc[p].c, "") \notin db
    /\ Covered(db, poolID) = Range(CIDR(0, 0))

\* C26: when every seeded record is canonical, every committed record, every
\* record a transaction has staged and every block a call has returned is
\* canonical: no address bit at index >= prefixBits is set.
C26_Canonical ==
    (\A r \in seeded : Canonical(r.c)) =>
        /\ \A r \in db : Canonical(r.c)
        /\ \A p \in Procs :
              /\ \A r \in proc[p].tx.ins : Canonical(r.c)
              /\ (proc[p].pc \in {"returned", "done"} /\ proc[p].err = "") =>
                    Canonical(proc[p].c)

\* C26 witness: a Deallocate of an upper half has adopted its free buddy and
\* merged into the parent block.
C26_Witness ==
    \E p \in Procs :
        /\ proc[p].op = "Deallocate" /\ proc[p].pc = "done" /\ proc[p].err = ""
        /\ proc[p].c.PrefixBits > 0
        /\ ~IsLower(proc[p].c)
        /\ Record(poolID, CIDR(Other(proc[p].c).IP, proc[p].c.PrefixBits - 1), "") \in db

====
